---- MODULE Spec2Model ----
(***************************************************************************)
(* Model of the redis session database of ybtq/iris-redis: the gob-backed  *)
(* value Store (store.go) and the Database bridge that loads a session's   *)
(* snapshot from redis, mutates it and writes it back.                     *)
(*                                                                         *)
(* Every Database call is cut at its redis round trips, so that calls of   *)
(* different goroutines interleave exactly where the program can be        *)
(* preempted by another client of the same redis server.                   *)
(***************************************************************************)
EXTENDS Integers, Sequences, FiniteSets, TLC

\* ------------------------------------------------------------------ bounds
\* Number of Database calls started in one behaviour.
MaxCalls == 2

\* ------------------------------------------------------------------ domains
Procs == {1, 2}
Sids == {"A", "B"}
Keys == {"k1", "k2"}
\* A value whose concrete type was never registered with gob: encoding fails.
Unregistered == "unregistered"
Values == {"v1", "v2", Unregistered}
\* Go's nil interface value: what a map read of a missing key yields.
Nil == "nil"
\* time.Duration in units of half a second: 0.5s and 2s.
Durations == {1, 4}

\* int64(d.Seconds()): whole seconds, truncated toward zero.
Seconds(d) == IF d >= 0 THEN d \div 2 ELSE 0 - ((0 - d) \div 2)

\* ------------------------------------------------------------------ Store
\* store.values is a function from the keys it holds to their values.
NewStore == [k \in {} |-> Nil]

Flush(values) == NewStore

\* rs.values[key] as Go evaluates it: nil when the key is missing.
ValueAt(values, key) == IF key \in DOMAIN values THEN values[key] ELSE Nil

\* The gob stream of a map: a type header, the element count, then the
\* key/value pairs in map iteration order (which Go leaves unspecified).
GobHeader == "gob:map[interface{}]interface{}"
CountTok == <<"0", "1", "2", "3", "4">>

Orders(S) == {o \in [1..Cardinality(S) -> S] : \A i, j \in 1..Cardinality(S) : o[i] = o[j] => i = j}

RECURSIVE EncodePairs(_, _)
EncodePairs(values, order) ==
    IF order = <<>> THEN <<>>
    ELSE <<Head(order), values[Head(order)]>> \o EncodePairs(values, Tail(order))

\* A Serialize that stops one pair short of the end of the map.
SerializeDropsLast(values, order) ==
    IF \E k \in DOMAIN values : values[k] = Unregistered
    THEN [err |-> TRUE, bytes |-> <<>>]
    ELSE LET kept == IF order = <<>> THEN order ELSE SubSeq(order, 1, Len(order) - 1) IN
         [err |-> FALSE, bytes |-> <<GobHeader, CountTok[Len(kept) + 1]>> \o EncodePairs(values, kept)]

\* Store.Serialize with the map iterated in `order`: the encoder rejects a
\* value of an unregistered type, otherwise it returns the stream.
Serialize(values, order) ==
    IF \E k \in DOMAIN values : values[k] = Unregistered
    THEN [err |-> TRUE, bytes |-> <<>>]
    ELSE [err |-> FALSE,
          bytes |-> <<GobHeader, CountTok[Cardinality(DOMAIN values) + 1]>> \o EncodePairs(values, order)]

\* A stream the decoder accepts: header, count, and exactly that many pairs.
WellFormed(d) ==
    /\ Len(d) >= 2
    /\ d[1] = GobHeader
    /\ \E n \in 0..(Len(CountTok) - 1) : CountTok[n + 1] = d[2] /\ Len(d) = 2 + 2 * n

RECURSIVE DecodeInto(_, _)
\* Decoding a map value stores each decoded pair into the destination map.
DecodeInto(values, pairs) ==
    IF pairs = <<>> THEN values
    ELSE DecodeInto([k \in (DOMAIN values) \cup {pairs[1]} |->
                        IF k = pairs[1] THEN pairs[2] ELSE values[k]],
                    SubSeq(pairs, 3, Len(pairs)))

\* A value in a stream that the decoder rejects when it reaches it (bytes
\* damaged inside the message, or the name of a type this process has not
\* registered).
Junk == "junk"

RECURSIVE GoodPrefix(_)
\* The pairs of a stream that come before the first pair that does not decode.
GoodPrefix(pairs) ==
    IF pairs = <<>> \/ pairs[2] = Junk THEN <<>>
    ELSE <<pairs[1], pairs[2]>> \o GoodPrefix(SubSeq(pairs, 3, Len(pairs)))

\* Store.Deserialize: dec.Decode(&rs.values) decodes into the map the Store
\* already holds.  A stream that is not a whole message fails before anything
\* is stored; a pair that does not decode fails the call after the pairs
\* before it have been stored.
Deserialize(values, d) ==
    IF WellFormed(d)
    THEN LET pairs == SubSeq(d, 3, Len(d)) IN
         [err |-> GoodPrefix(pairs) # pairs, values |-> DecodeInto(values, GoodPrefix(pairs))]
    ELSE [err |-> TRUE, values |-> values]

\* ------------------------------------------------------------------ redis service
\* An entry of the external store.  ttl = -1: no expiration; ttl = -2 and
\* exists = FALSE: no entry (the numbers redis reports for TTL).
NoEntry == [exists |-> FALSE, payload |-> <<>>, ttl |-> -2]
Entry(payload, ttl) == [exists |-> TRUE, payload |-> payload, ttl |-> ttl]

\* service.Get: the payload, or an error when the entry is absent or the
\* round trip fails.
redisGet(r, id, ok) ==
    IF ok /\ r[id].exists THEN [err |-> FALSE, data |-> r[id].payload]
    ELSE [err |-> TRUE, data |-> <<>>]

\* service.Set: replaces the payload; a positive ttl sets the expiration, a
\* ttl of 0 or less leaves the expiration as it was (none for a new entry).
redisSet(r, id, payload, ttl) ==
    [r EXCEPT ![id] = Entry(payload, IF ttl > 0 THEN ttl ELSE IF r[id].exists THEN r[id].ttl ELSE -1)]

\* service.TTL: (seconds, hasExpiration, found).
redisTTL(r, id) ==
    [seconds |-> r[id].ttl, hasExpiration |-> r[id].ttl > -1, found |-> r[id].exists]

\* service.UpdateTTL: refreshes the expiration of an existing entry.
redisUpdateTTL(r, id, ttl) ==
    IF r[id].exists /\ ttl > 0 THEN [r EXCEPT ![id].ttl = ttl] ELSE r

\* service.Delete: removes the entry.
redisDelete(r, id) == [r EXCEPT ![id] = NoEntry]

\* service.Exist
redisExist(r, id) == r[id].exists


\* ------------------------------------------------------------------ state
VARIABLES
    redis,   \* the external store: session id -> entry
    pc,      \* per goroutine: "idle" or the round trip its call waits at
    call,    \* per goroutine: its current (or last finished) Database call
    store,   \* per goroutine: values of the Store its call built
    hist,    \* per goroutine: the call it finished before `call`
    chain,   \* per goroutine: how many of its latest calls ran back to back, undisturbed
    cut,     \* per goroutine: its call in progress saw its entry changed by someone else
    ncalls,  \* calls started so far
    lastw,   \* the goroutine whose command redis executed last (0: none yet)
    codec,   \* a Store pair used to exercise Serialize/Deserialize on their own
    shared   \* one Store used by several goroutines at once, with its lock

vars == <<redis, pc, call, store, hist, chain, cut, ncalls, lastw, codec, shared>>

ZeroLifeTime == [zero |-> TRUE, after |-> 0]

\* What a call hands back to its caller.  err is the returned error value
\* (only OnUpdateExpiration has one); lifetime.after counts seconds from now.
NoRet == [value |-> Nil, n |-> 0, deleted |-> FALSE, lifetime |-> ZeroLifeTime,
          visited |-> {}, err |-> FALSE]

NoCall == [op |-> "none", sid |-> "A", key |-> "", value |-> Nil, dur |-> 0,
           pre |-> NoEntry, ret |-> NoRet, wrote |-> <<>>, logged |-> <<>>, loaded |-> NewStore,
           fault |-> FALSE]

\* A call as it starts: pre is the entry of sid at that moment, wrote the
\* redis commands that change the store issued so far, logged the golog.Error
\* lines, loaded the snapshot db.get decoded, fault whether a round trip failed.
Begin(op, sid, key, value, dur, ok) ==
    [op |-> op, sid |-> sid, key |-> key, value |-> value, dur |-> dur,
     pre |-> redis[sid], ret |-> NoRet, wrote |-> <<>>, logged |-> <<>>, loaded |-> NewStore,
     fault |-> ~ok]

\* What is kept of a call once the next one starts: accepted says that it
\* wrote to redis and that every write went through.
Summary(c) ==
    [op |-> c.op, sid |-> c.sid, key |-> c.key, value |-> c.value, loaded |-> c.loaded,
     accepted |-> c.wrote # <<>> /\ \A i \in 1..Len(c.wrote) : c.wrote[i].ok,
     deleted |-> c.ret.deleted, fault |-> c.fault]

Cmd(cmd, id, payload, ttl, ok) == [cmd |-> cmd, id |-> id, payload |-> payload, ttl |-> ttl, ok |-> ok]

NoCodec == [phase |-> "off", src |-> NewStore, bytes |-> <<>>, encErr |-> FALSE,
            dst0 |-> NewStore, dst |-> NewStore, decErr |-> FALSE]

\* A Store nobody uses: rs.values, the goroutine holding rs.lock for writing
\* (0: none), the goroutines holding it for reading, and per goroutine the
\* method it is inside of ("" for none), whether its access to rs.values
\* overlapped a conflicting one, and what its last method returned.
NoOp == [name |-> "", key |-> "", value |-> Nil, bytes |-> <<>>]

NoShared == [values |-> NewStore, writer |-> 0, readers |-> {},
             op |-> [p \in Procs |-> NoOp], raced |-> [p \in Procs |-> FALSE],
             out |-> [p \in Procs |-> [value |-> Nil, bytes |-> <<>>, err |-> FALSE]],
             nops |-> 0, crashed |-> FALSE]

\* Snapshots a session can hold when the behaviour starts: no entry, the
\* empty payload Acquire writes, and snapshots earlier Set calls wrote.
InitEntries ==
    { NoEntry,
      Entry(<<>>, 2),
      Entry(Serialize([k \in {"k1"} |-> "v1"], <<"k1">>).bytes, -1),
      Entry(Serialize([k \in Keys |-> IF k = "k1" THEN "v2" ELSE "v1"], <<"k2", "k1">>).bytes, 2) }

Init ==
    /\ \E e \in InitEntries : redis = [id \in Sids |-> IF id = "A" THEN e ELSE NoEntry]
    /\ pc = [p \in Procs |-> "idle"]
    /\ call = [p \in Procs |-> NoCall]
    /\ store = [p \in Procs |-> NewStore]
    /\ hist = [p \in Procs |-> Summary(NoCall)]
    /\ chain = [p \in Procs |-> 0]
    /\ cut = [p \in Procs |-> FALSE]
    /\ ncalls = 0
    /\ lastw = 0
    /\ codec = NoCodec
    /\ shared = NoShared

\* ------------------------------------------------------------------ bookkeeping
Min(a, b) == IF a < b THEN a ELSE b

\* Goroutine q's entry differs between the store now and r2.
Touched(q, r2) == r2[call[q].sid] # redis[call[q].sid]

\* Goroutine p takes a step that leaves the store as r2; `done` says whether
\* the step returns from p's call.
Track(p, r2, done) ==
    /\ cut' = [q \in Procs |->
                IF q = p THEN (IF done THEN FALSE ELSE cut[p])
                ELSE cut[q] \/ (pc[q] # "idle" /\ Touched(q, r2))]
    /\ chain' = [q \in Procs |->
                IF q = p THEN (IF done THEN (IF cut[p] THEN 0 ELSE Min(chain[p] + 1, 2)) ELSE chain[p])
                ELSE IF Touched(q, r2) THEN 0 ELSE chain[q]]

Enter(p) ==
    /\ pc[p] = "idle"
    /\ ncalls < MaxCalls
    /\ ncalls' = ncalls + 1
    /\ hist' = [hist EXCEPT ![p] = Summary(call[p])]

\* The call of p returns.
Finish(p, r2) ==
    /\ pc' = [pc EXCEPT ![p] = "idle"]
    /\ store' = [store EXCEPT ![p] = NewStore]
    /\ Track(p, r2, TRUE)

\* The call of p blocks on its next round trip, holding the Store `values`.
Suspend(p, at, values) ==
    /\ pc' = [pc EXCEPT ![p] = at]
    /\ store' = [store EXCEPT ![p] = values]
    /\ Track(p, redis, FALSE)

\* ------------------------------------------------------------------ Database helpers
\* A db.get that decodes into a copy of the Store: the caller's stays empty.
getDecodesACopy(r, sid, values, ok) ==
    LET g == redisGet(r, sid, ok) IN
    IF g.err THEN [values |-> values, logged |-> <<>>]
    ELSE LET d == Deserialize(values, g.data) IN
         [values |-> values, logged |-> IF d.err THEN <<"decode">> ELSE <<>>]

\* A db.get that logs the fetch error instead of returning silently.
getLogsFetchError(r, sid, values, ok) ==
    LET g == redisGet(r, sid, ok) IN
    IF g.err THEN [values |-> values, logged |-> <<"fetch">>]
    ELSE LET d == Deserialize(values, g.data) IN
         [values |-> d.values, logged |-> IF d.err THEN <<"decode">> ELSE <<>>]

\* db.get: fetch and decode into `values`; a fetch error returns silently,
\* a decode error is logged.
get(r, sid, values, ok) ==
    LET g == redisGet(r, sid, ok) IN
    IF g.err THEN [values |-> values, logged |-> <<>>]
    ELSE LET d == Deserialize(values, g.data) IN
         [values |-> d.values, logged |-> IF d.err THEN <<"decode">> ELSE <<>>]

\* A db.set that, when encoding fails, goes on to write the nil bytes.
setWritesAfterEncodeError(r, sid, secondsLifetime, values, order, ok) ==
    LET s == Serialize(values, order) IN
    IF ok
    THEN [redis |-> redisSet(r, sid, s.bytes, secondsLifetime),
          wrote |-> <<Cmd("Set", sid, s.bytes, secondsLifetime, TRUE)>>,
          logged |-> IF s.err THEN <<"encode">> ELSE <<>>]
    ELSE [redis |-> r,
          wrote |-> <<Cmd("Set", sid, s.bytes, secondsLifetime, FALSE)>>,
          logged |-> (IF s.err THEN <<"encode">> ELSE <<>>) \o <<"store">>]

\* A db.set that sends the write a second time when the first one fails.
setRetries(r, sid, secondsLifetime, values, order, ok) ==
    LET s == Serialize(values, order) IN
    IF s.err THEN [redis |-> r, wrote |-> <<>>, logged |-> <<"encode">>]
    ELSE IF ok
         THEN [redis |-> redisSet(r, sid, s.bytes, secondsLifetime),
               wrote |-> <<Cmd("Set", sid, s.bytes, secondsLifetime, TRUE)>>, logged |-> <<>>]
         ELSE [redis |-> redisSet(r, sid, s.bytes, secondsLifetime),
               wrote |-> <<Cmd("Set", sid, s.bytes, secondsLifetime, FALSE),
                           Cmd("Set", sid, s.bytes, secondsLifetime, FALSE)>>,
               logged |-> <<"store">>]

\* db.set: serialize and write; either failure is logged and nothing is returned.
set(r, sid, secondsLifetime, values, order, ok) ==
    LET s == Serialize(values, order) IN
    IF s.err THEN [redis |-> r, wrote |-> <<>>, logged |-> <<"encode">>]
    ELSE IF ok
         THEN [redis |-> redisSet(r, sid, s.bytes, secondsLifetime),
               wrote |-> <<Cmd("Set", sid, s.bytes, secondsLifetime, TRUE)>>, logged |-> <<>>]
         ELSE [redis |-> r,
               wrote |-> <<Cmd("Set", sid, s.bytes, secondsLifetime, FALSE)>>, logged |-> <<"store">>]

\* The persist round trip of p's call: db.set of the Store it holds.
Persist(p, secondsLifetime, order, ok) ==
    set(redis, call[p].sid, secondsLifetime, store[p], order, ok)

Persisted(p, s, ok) ==
    [call[p] EXCEPT !.wrote = @ \o s.wrote, !.logged = @ \o s.logged,
                    !.fault = @ \/ (s.wrote # <<>> /\ ~ok)]

\* ------------------------------------------------------------------ Database calls
\* An Acquire that returns the reported seconds for every entry found.
AcquireIgnoresHasExpiration(p, sid, expires) ==
    /\ Enter(p)
    /\ LET t == redisTTL(redis, sid)
           c == Begin("Acquire", sid, "", Nil, expires, TRUE)
       IN IF ~t.found
          THEN /\ call' = [call EXCEPT ![p] = c]
               /\ Suspend(p, "AcquireSet", NewStore)
          ELSE /\ call' = [call EXCEPT ![p] =
                       [c EXCEPT !.ret.lifetime =
                           [zero |-> FALSE, after |-> t.seconds]]]
               /\ Finish(p, redis)
    /\ UNCHANGED <<redis, lastw, codec, shared>>

\* Acquire, first round trip: read the TTL.  A found entry answers at once;
\* otherwise the call goes on to create the entry.
Acquire(p, sid, expires) ==
    /\ Enter(p)
    /\ LET t == redisTTL(redis, sid)
           c == Begin("Acquire", sid, "", Nil, expires, TRUE)
       IN IF ~t.found
          THEN /\ call' = [call EXCEPT ![p] = c]
               /\ Suspend(p, "AcquireSet", NewStore)
          ELSE /\ call' = [call EXCEPT ![p] =
                       [c EXCEPT !.ret.lifetime =
                           IF t.hasExpiration THEN [zero |-> FALSE, after |-> t.seconds]
                           ELSE ZeroLifeTime]]
               /\ Finish(p, redis)
    /\ UNCHANGED <<redis, lastw, codec, shared>>

\* An Acquire that hands redis the duration itself, not its seconds.
AcquireSetRawDuration(p, ok) ==
    /\ pc[p] = "AcquireSet"
    /\ LET ttl == call[p].dur
           r2 == IF ok THEN redisSet(redis, call[p].sid, <<>>, ttl) ELSE redis
       IN /\ redis' = r2
          /\ call' = [call EXCEPT ![p].wrote = @ \o <<Cmd("Set", call[p].sid, <<>>, ttl, ok)>>,
                                  ![p].logged = @ \o (IF ok THEN <<>> ELSE <<"store">>),
                                  ![p].fault = @ \/ ~ok,
                                  ![p].ret.lifetime = ZeroLifeTime]
          /\ Finish(p, r2)
    /\ lastw' = (IF ok /\ call'[p].wrote # call[p].wrote THEN p ELSE lastw)
    /\ UNCHANGED <<hist, ncalls, codec, shared>>

\* Acquire, second round trip: write the empty payload with the default
\* expiration; a failure is logged and the empty LifeTime returned anyway.
AcquireSet(p, ok) ==
    /\ pc[p] = "AcquireSet"
    /\ LET ttl == Seconds(call[p].dur)
           r2 == IF ok THEN redisSet(redis, call[p].sid, <<>>, ttl) ELSE redis
       IN /\ redis' = r2
          /\ call' = [call EXCEPT ![p].wrote = @ \o <<Cmd("Set", call[p].sid, <<>>, ttl, ok)>>,
                                  ![p].logged = @ \o (IF ok THEN <<>> ELSE <<"store">>),
                                  ![p].fault = @ \/ ~ok,
                                  ![p].ret.lifetime = ZeroLifeTime]
          /\ Finish(p, r2)
    /\ lastw' = (IF ok /\ call'[p].wrote # call[p].wrote THEN p ELSE lastw)
    /\ UNCHANGED <<hist, ncalls, codec, shared>>

\* An OnUpdateExpiration that drops the error of UpdateTTL.
OnUpdateExpirationDropsError(p, sid, newExpires, ok) ==
    /\ Enter(p)
    /\ LET ttl == Seconds(newExpires)
           r2 == IF ok THEN redisUpdateTTL(redis, sid, ttl) ELSE redis
           c == Begin("OnUpdateExpiration", sid, "", Nil, newExpires, ok)
       IN /\ redis' = r2
          /\ call' = [call EXCEPT ![p] =
                       [c EXCEPT !.wrote = <<Cmd("UpdateTTL", sid, <<>>, ttl, ok)>>,
                                 !.ret.err = FALSE]]
          /\ Finish(p, r2)
    /\ lastw' = (IF ok THEN p ELSE lastw)
    /\ UNCHANGED <<codec, shared>>

\* OnUpdateExpiration: one UpdateTTL round trip, its error returned.
OnUpdateExpiration(p, sid, newExpires, ok) ==
    /\ Enter(p)
    /\ LET ttl == Seconds(newExpires)
           r2 == IF ok THEN redisUpdateTTL(redis, sid, ttl) ELSE redis
           c == Begin("OnUpdateExpiration", sid, "", Nil, newExpires, ok)
       IN /\ redis' = r2
          /\ call' = [call EXCEPT ![p] =
                       [c EXCEPT !.wrote = <<Cmd("UpdateTTL", sid, <<>>, ttl, ok)>>,
                                 !.ret.err = ~ok]]
          /\ Finish(p, r2)
    /\ lastw' = (IF ok THEN p ELSE lastw)
    /\ UNCHANGED <<codec, shared>>

\* A Set that persists its key alone, forgetting the snapshot it loaded.
SetOverwritesSnapshot(p, sid, lifetime, key, value, ok) ==
    /\ Enter(p)
    /\ LET l == get(redis, sid, NewStore, ok)
           c == Begin("Set", sid, key, value, lifetime, ok)
       IN /\ call' = [call EXCEPT ![p] = [c EXCEPT !.logged = l.logged, !.loaded = l.values]]
          /\ Suspend(p, "SetPersist",
                     [k \in {key} |-> value])
    /\ UNCHANGED <<redis, lastw, codec, shared>>

\* Set, load and mutate: a fresh Store, db.get, store.values[key] = value.
Set(p, sid, lifetime, key, value, ok) ==
    /\ Enter(p)
    /\ LET l == get(redis, sid, NewStore, ok)
           c == Begin("Set", sid, key, value, lifetime, ok)
       IN /\ call' = [call EXCEPT ![p] = [c EXCEPT !.logged = l.logged, !.loaded = l.values]]
          /\ Suspend(p, "SetPersist",
                     [k \in (DOMAIN l.values) \cup {key} |-> IF k = key THEN value ELSE l.values[k]])
    /\ UNCHANGED <<redis, lastw, codec, shared>>

\* Set, persist: db.set with the seconds left of the lifetime.
SetPersist(p, order, ok) ==
    /\ pc[p] = "SetPersist"
    /\ LET s == Persist(p, Seconds(call[p].dur), order, ok)
       IN /\ redis' = s.redis
          /\ call' = [call EXCEPT ![p] = Persisted(p, s, ok)]
          /\ Finish(p, s.redis)
    /\ lastw' = (IF ok /\ call'[p].wrote # call[p].wrote THEN p ELSE lastw)
    /\ UNCHANGED <<hist, ncalls, codec, shared>>

\* A Get that writes the snapshot it loaded back to the store.
GetWritesBack(p, sid, key, ok) ==
    /\ Enter(p)
    /\ LET l == get(redis, sid, NewStore, ok)
           s == set(redis, sid, 0, l.values, CHOOSE o \in Orders(DOMAIN l.values) : TRUE, ok)
           c == Begin("Get", sid, key, Nil, 0, ok)
       IN /\ call' = [call EXCEPT ![p] =
                     [c EXCEPT !.logged = l.logged \o s.logged, !.loaded = l.values,
                               !.wrote = s.wrote,
                               !.ret.value = ValueAt(l.values, key)]]
          /\ redis' = s.redis
          /\ Finish(p, s.redis)
    /\ UNCHANGED <<lastw, codec, shared>>

\* Get: load, then read the key.
Get(p, sid, key, ok) ==
    /\ Enter(p)
    /\ LET l == get(redis, sid, NewStore, ok)
           c == Begin("Get", sid, key, Nil, 0, ok)
       IN call' = [call EXCEPT ![p] =
                     [c EXCEPT !.logged = l.logged, !.loaded = l.values,
                               !.ret.value = ValueAt(l.values, key)]]
    /\ Finish(p, redis)
    /\ UNCHANGED <<redis, lastw, codec, shared>>

\* Visit: load, then call cb once per pair.
Visit(p, sid, ok) ==
    /\ Enter(p)
    /\ LET l == get(redis, sid, NewStore, ok)
           c == Begin("Visit", sid, "", Nil, 0, ok)
       IN call' = [call EXCEPT ![p] =
                     [c EXCEPT !.logged = l.logged, !.loaded = l.values,
                               !.ret.visited = {<<k, l.values[k]>> : k \in DOMAIN l.values}]]
    /\ Finish(p, redis)
    /\ UNCHANGED <<redis, lastw, codec, shared>>

\* Len: load, then count the keys.
DatabaseLen(p, sid, ok) ==
    /\ Enter(p)
    /\ LET l == get(redis, sid, NewStore, ok)
           c == Begin("Len", sid, "", Nil, 0, ok)
       IN call' = [call EXCEPT ![p] =
                     [c EXCEPT !.logged = l.logged, !.loaded = l.values,
                               !.ret.n = Cardinality(DOMAIN l.values)]]
    /\ Finish(p, redis)
    /\ UNCHANGED <<redis, lastw, codec, shared>>

\* A Delete that persists the snapshot without removing the key.
DeleteKeepsKey(p, sid, key, ok) ==
    /\ Enter(p)
    /\ LET l == get(redis, sid, NewStore, ok)
           c == [Begin("Delete", sid, key, Nil, 0, ok) EXCEPT !.logged = l.logged, !.loaded = l.values]
       IN IF key \in DOMAIN l.values
          THEN /\ call' = [call EXCEPT ![p] = c]
               /\ Suspend(p, "DeletePersist", l.values)
          ELSE /\ call' = [call EXCEPT ![p] = c]
               /\ Finish(p, redis)
    /\ UNCHANGED <<redis, lastw, codec, shared>>

\* Delete, load and mutate: only a key the snapshot holds leads to a persist.
Delete(p, sid, key, ok) ==
    /\ Enter(p)
    /\ LET l == get(redis, sid, NewStore, ok)
           c == [Begin("Delete", sid, key, Nil, 0, ok) EXCEPT !.logged = l.logged, !.loaded = l.values]
       IN IF key \in DOMAIN l.values
          THEN /\ call' = [call EXCEPT ![p] = c]
               /\ Suspend(p, "DeletePersist", [k \in (DOMAIN l.values) \ {key} |-> l.values[k]])
          ELSE /\ call' = [call EXCEPT ![p] = c]
               /\ Finish(p, redis)
    /\ UNCHANGED <<redis, lastw, codec, shared>>

\* A Delete that persists with the TTL the entry had when the call began.
DeletePersistKeepsTTL(p, order, ok) ==
    /\ pc[p] = "DeletePersist"
    /\ LET s == Persist(p, call[p].pre.ttl, order, ok)
       IN /\ redis' = s.redis
          /\ call' = [call EXCEPT ![p] = [Persisted(p, s, ok) EXCEPT !.ret.deleted = TRUE]]
          /\ Finish(p, s.redis)
    /\ lastw' = (IF ok /\ call'[p].wrote # call[p].wrote THEN p ELSE lastw)
    /\ UNCHANGED <<hist, ncalls, codec, shared>>

\* Delete, persist: db.set with expiration 0, then deleted = true.
DeletePersist(p, order, ok) ==
    /\ pc[p] = "DeletePersist"
    /\ LET s == Persist(p, 0, order, ok)
       IN /\ redis' = s.redis
          /\ call' = [call EXCEPT ![p] = [Persisted(p, s, ok) EXCEPT !.ret.deleted = TRUE]]
          /\ Finish(p, s.redis)
    /\ lastw' = (IF ok /\ call'[p].wrote # call[p].wrote THEN p ELSE lastw)
    /\ UNCHANGED <<hist, ncalls, codec, shared>>

\* A Clear that persists whether or not the snapshot held anything.
ClearAlwaysPersists(p, sid, ok) ==
    /\ Enter(p)
    /\ LET l == get(redis, sid, NewStore, ok)
           c == [Begin("Clear", sid, "", Nil, 0, ok) EXCEPT !.logged = l.logged, !.loaded = l.values]
       IN /\ call' = [call EXCEPT ![p] = c]
          /\ Suspend(p, "ClearPersist", Flush(l.values))
    /\ UNCHANGED <<redis, lastw, codec, shared>>

\* Clear, load and mutate: a non-empty snapshot is flushed and persisted.
Clear(p, sid, ok) ==
    /\ Enter(p)
    /\ LET l == get(redis, sid, NewStore, ok)
           c == [Begin("Clear", sid, "", Nil, 0, ok) EXCEPT !.logged = l.logged, !.loaded = l.values]
       IN /\ call' = [call EXCEPT ![p] = c]
          /\ IF Cardinality(DOMAIN l.values) > 0
             THEN Suspend(p, "ClearPersist", Flush(l.values))
             ELSE Finish(p, redis)
    /\ UNCHANGED <<redis, lastw, codec, shared>>

\* Clear, persist: db.set with expiration 0.
ClearPersist(p, ok) ==
    /\ pc[p] = "ClearPersist"
    /\ LET s == Persist(p, 0, <<>>, ok)
       IN /\ redis' = s.redis
          /\ call' = [call EXCEPT ![p] = Persisted(p, s, ok)]
          /\ Finish(p, s.redis)
    /\ lastw' = (IF ok /\ call'[p].wrote # call[p].wrote THEN p ELSE lastw)
    /\ UNCHANGED <<hist, ncalls, codec, shared>>

\* Release, the load of its inner Clear.
Release(p, sid, ok) ==
    /\ Enter(p)
    /\ LET l == get(redis, sid, NewStore, ok)
           c == [Begin("Release", sid, "", Nil, 0, ok) EXCEPT !.logged = l.logged, !.loaded = l.values]
       IN /\ call' = [call EXCEPT ![p] = c]
          /\ IF Cardinality(DOMAIN l.values) > 0
             THEN Suspend(p, "ReleaseClear", Flush(l.values))
             ELSE Suspend(p, "ReleaseDelete", l.values)
    /\ UNCHANGED <<redis, lastw, codec, shared>>

\* Release, the persist of its inner Clear.
ReleaseClear(p, ok) ==
    /\ pc[p] = "ReleaseClear"
    /\ LET s == Persist(p, 0, <<>>, ok)
       IN /\ redis' = s.redis
          /\ call' = [call EXCEPT ![p] = Persisted(p, s, ok)]
          /\ pc' = [pc EXCEPT ![p] = "ReleaseDelete"]
          /\ Track(p, s.redis, FALSE)
    /\ lastw' = (IF ok /\ call'[p].wrote # call[p].wrote THEN p ELSE lastw)
    /\ UNCHANGED <<store, hist, ncalls, codec, shared>>

\* A Release that never sends the Delete its last step reports.
ReleaseDeleteSkipped(p, ok) ==
    /\ pc[p] = "ReleaseDelete"
    /\ LET r2 == redis
       IN /\ redis' = r2
          /\ call' = [call EXCEPT ![p].wrote = @ \o <<Cmd("Delete", call[p].sid, <<>>, 0, ok)>>,
                                  ![p].fault = @ \/ ~ok]
          /\ Finish(p, r2)
    /\ lastw' = (IF ok /\ call'[p].wrote # call[p].wrote THEN p ELSE lastw)
    /\ UNCHANGED <<hist, ncalls, codec, shared>>

\* A Release whose last step empties the whole store.
ReleaseDeleteAll(p, ok) ==
    /\ pc[p] = "ReleaseDelete"
    /\ LET r2 == IF ok THEN [id \in Sids |-> NoEntry] ELSE redis
       IN /\ redis' = r2
          /\ call' = [call EXCEPT ![p].wrote = @ \o <<Cmd("Delete", call[p].sid, <<>>, 0, ok)>>,
                                  ![p].fault = @ \/ ~ok]
          /\ Finish(p, r2)
    /\ lastw' = (IF ok /\ call'[p].wrote # call[p].wrote THEN p ELSE lastw)
    /\ UNCHANGED <<hist, ncalls, codec, shared>>

\* Release, last round trip: delete the entry; the error is dropped.
ReleaseDelete(p, ok) ==
    /\ pc[p] = "ReleaseDelete"
    /\ LET r2 == IF ok THEN redisDelete(redis, call[p].sid) ELSE redis
       IN /\ redis' = r2
          /\ call' = [call EXCEPT ![p].wrote = @ \o <<Cmd("Delete", call[p].sid, <<>>, 0, ok)>>,
                                  ![p].fault = @ \/ ~ok]
          /\ Finish(p, r2)
    /\ lastw' = (IF ok /\ call'[p].wrote # call[p].wrote THEN p ELSE lastw)
    /\ UNCHANGED <<hist, ncalls, codec, shared>>

\* ------------------------------------------------------------------ environment
\* One second passes: redis counts every expiration down and discards the
\* entries whose time is up.  Time matters only while some entry can expire.
Expire(r) ==
    [id \in Sids |->
        IF r[id].exists /\ r[id].ttl > 0
        THEN (IF r[id].ttl = 1 THEN NoEntry ELSE [r[id] EXCEPT !.ttl = @ - 1])
        ELSE r[id]]

Tick ==
    /\ \E id \in Sids : redis[id].ttl > 0
    /\ redis' = Expire(redis)
    /\ cut' = [q \in Procs |-> cut[q] \/ (pc[q] # "idle" /\ Touched(q, Expire(redis)))]
    /\ chain' = [q \in Procs |-> IF Touched(q, Expire(redis)) THEN 0 ELSE chain[q]]
    /\ UNCHANGED <<pc, call, store, hist, ncalls, lastw, codec, shared>>

\* ------------------------------------------------------------------ Store on its own
\* Every mapping of the model's keys to its values.
Mappings == UNION {[D -> Values] : D \in SUBSET Keys}

\* A Store holding src is serialized with the map iterated in `order`.
StoreSerialize(order) ==
    /\ codec.phase = "new"
    /\ LET s == Serialize(codec.src, order)
       IN codec' = [codec EXCEPT !.phase = "encoded", !.bytes = s.bytes, !.encErr = s.err]
    /\ UNCHANGED <<redis, pc, call, store, hist, chain, cut, ncalls, lastw, shared>>

\* The bytes are deserialized by a Store whose map holds dst.
StoreDeserialize ==
    /\ codec.phase = "encoded"
    /\ ~codec.encErr
    /\ LET d == Deserialize(codec.dst, codec.bytes)
       IN codec' = [codec EXCEPT !.phase = "decoded", !.dst = d.values, !.decErr = d.err]
    /\ UNCHANGED <<redis, pc, call, store, hist, chain, cut, ncalls, lastw, shared>>

\* A Store holding any mapping, and a second Store (new, or holding any
\* mapping) to decode into.
InitStore ==
    /\ redis = [id \in Sids |-> NoEntry]
    /\ pc = [p \in Procs |-> "idle"]
    /\ call = [p \in Procs |-> NoCall]
    /\ store = [p \in Procs |-> NewStore]
    /\ hist = [p \in Procs |-> Summary(NoCall)]
    /\ chain = [p \in Procs |-> 0]
    /\ cut = [p \in Procs |-> FALSE]
    /\ ncalls = 0
    /\ lastw = 0
    /\ \E m \in Mappings, n \in Mappings :
          codec = [NoCodec EXCEPT !.phase = "new", !.src = m, !.dst0 = n, !.dst = n]
    /\ shared = NoShared

NextStore ==
    \/ \E o \in Orders(DOMAIN codec.src) : StoreSerialize(o)
    \/ StoreDeserialize

SpecStore == InitStore /\ [][NextStore]_vars

\* ------------------------------------------------------------------ Store under its lock
\* The methods that assign to rs.values or to its elements, and those that
\* only read it.
Writes == {"Set", "Delete", "Flush", "Deserialize"}
Reads == {"Get", "Serialize"}

\* What each method does with rs.lock before it touches rs.values:
\* Set, Delete and Flush call Lock, Get calls RLock, Serialize and
\* Deserialize call neither.
TakesLock(name) ==
    IF name \in {"Set", "Delete", "Flush"} THEN "Lock"
    ELSE IF name = "Get" THEN "RLock"
    ELSE "none"

\* Two methods in progress at once, one of them a write.
Conflicts(a, b) == a # "" /\ b # "" /\ (a \in Writes \/ b \in Writes)

\* rs.values after the method `op` has run on it alone.
Apply(values, op) ==
    IF op.name = "Set"
    THEN [k \in (DOMAIN values) \cup {op.key} |-> IF k = op.key THEN op.value ELSE values[k]]
    ELSE IF op.name = "Delete"
    THEN [k \in (DOMAIN values) \ {op.key} |-> values[k]]
    ELSE IF op.name = "Flush" THEN Flush(values)
    ELSE IF op.name = "Deserialize" THEN Deserialize(values, op.bytes).values
    ELSE values

\* What the method hands back.
Result(values, op, order) ==
    [value |-> IF op.name = "Get" THEN ValueAt(values, op.key) ELSE Nil,
     bytes |-> IF op.name = "Serialize" THEN Serialize(values, order).bytes ELSE <<>>,
     err |-> IF op.name = "Serialize" THEN Serialize(values, order).err
             ELSE IF op.name = "Deserialize" THEN Deserialize(values, op.bytes).err
             ELSE FALSE]

\* Goroutine p enters a method of the shared Store: it takes the lock the
\* method asks for (waiting while the lock is not free) and starts to touch
\* rs.values.
RsEnter(p, op) ==
    /\ ~shared.crashed
    /\ shared.op[p].name = ""
    /\ shared.nops < MaxCalls
    /\ TakesLock(op.name) = "Lock" => shared.writer = 0 /\ shared.readers = {}
    /\ TakesLock(op.name) = "RLock" => shared.writer = 0
    /\ shared' = [shared EXCEPT
            !.op[p] = op,
            !.writer = IF TakesLock(op.name) = "Lock" THEN p ELSE @,
            !.readers = IF TakesLock(op.name) = "RLock" THEN @ \cup {p} ELSE @,
            !.raced = [q \in Procs |->
                         IF q = p THEN \E o \in Procs \ {p} : Conflicts(shared.op[o].name, op.name)
                         ELSE @[q] \/ Conflicts(shared.op[q].name, op.name)],
            !.nops = @ + 1]

RsSet(p, key, value) ==
    /\ RsEnter(p, [NoOp EXCEPT !.name = "Set", !.key = key, !.value = value])
    /\ UNCHANGED <<redis, pc, call, store, hist, chain, cut, ncalls, lastw, codec>>

RsGet(p, key) ==
    /\ RsEnter(p, [NoOp EXCEPT !.name = "Get", !.key = key])
    /\ UNCHANGED <<redis, pc, call, store, hist, chain, cut, ncalls, lastw, codec>>

RsDelete(p, key) ==
    /\ RsEnter(p, [NoOp EXCEPT !.name = "Delete", !.key = key])
    /\ UNCHANGED <<redis, pc, call, store, hist, chain, cut, ncalls, lastw, codec>>

RsFlush(p) ==
    /\ RsEnter(p, [NoOp EXCEPT !.name = "Flush"])
    /\ UNCHANGED <<redis, pc, call, store, hist, chain, cut, ncalls, lastw, codec>>

RsSerialize(p) ==
    /\ RsEnter(p, [NoOp EXCEPT !.name = "Serialize"])
    /\ UNCHANGED <<redis, pc, call, store, hist, chain, cut, ncalls, lastw, codec>>

RsDeserialize(p, d) ==
    /\ RsEnter(p, [NoOp EXCEPT !.name = "Deserialize", !.bytes = d])
    /\ UNCHANGED <<redis, pc, call, store, hist, chain, cut, ncalls, lastw, codec>>

\* The method of p is through with rs.values, unlocks and returns.  When its
\* access overlapped a conflicting one the program has a data race: the Go
\* runtime may stop it ("concurrent map read and map write"), and otherwise
\* the write may or may not be in the map.
RsReturn(p, order, kept, crash) ==
    /\ ~shared.crashed
    /\ shared.op[p].name # ""
    /\ ~shared.raced[p] => kept /\ ~crash
    /\ LET v2 == IF kept THEN Apply(shared.values, shared.op[p]) ELSE shared.values
       IN shared' = [shared EXCEPT
            !.values = IF crash THEN @ ELSE v2,
            !.out[p] = IF crash THEN @ ELSE Result(shared.values, shared.op[p], order),
            !.op[p] = NoOp,
            !.raced[p] = FALSE,
            !.writer = IF @ = p THEN 0 ELSE @,
            !.readers = @ \ {p},
            !.crashed = crash]
    /\ UNCHANGED <<redis, pc, call, store, hist, chain, cut, ncalls, lastw, codec>>

\* The streams handed to Deserialize: one Serialize wrote, and a corrupt one.
Streams == {Serialize([k \in {"k2"} |-> "v2"], <<"k2">>).bytes, <<GobHeader>>}

\* A Store that is new or holds a key, shared by the goroutines.
InitLock ==
    /\ redis = [id \in Sids |-> NoEntry]
    /\ pc = [p \in Procs |-> "idle"]
    /\ call = [p \in Procs |-> NoCall]
    /\ store = [p \in Procs |-> NewStore]
    /\ hist = [p \in Procs |-> Summary(NoCall)]
    /\ chain = [p \in Procs |-> 0]
    /\ cut = [p \in Procs |-> FALSE]
    /\ ncalls = 0
    /\ lastw = 0
    /\ codec = NoCodec
    /\ \E m \in {NewStore, [k \in {"k1"} |-> "v1"]} : shared = [NoShared EXCEPT !.values = m]

NextLock ==
    \/ \E p \in Procs, k \in Keys, v \in {"v1", "v2"} : RsSet(p, k, v)
    \/ \E p \in Procs, k \in Keys : RsGet(p, k)
    \/ \E p \in Procs, k \in Keys : RsDelete(p, k)
    \/ \E p \in Procs : RsFlush(p)
    \/ \E p \in Procs : RsSerialize(p)
    \/ \E p \in Procs, d \in Streams : RsDeserialize(p, d)
    \/ \E p \in Procs, kept \in BOOLEAN, crash \in BOOLEAN, o \in Orders(DOMAIN shared.values) :
          RsReturn(p, o, kept, crash)

SpecLock == InitLock /\ [][NextLock]_vars

\* The steps of the goroutines P, calling with session ids S, values V and
\* durations D, every redis round trip ending as one of F (TRUE: it succeeds).
Step(P, S, V, D, F) ==
    \/ \E p \in P, sid \in S, d \in D : Acquire(p, sid, d)
    \/ \E p \in P, ok \in F : AcquireSet(p, ok)
    \/ \E p \in P, sid \in S, d \in D, ok \in F : OnUpdateExpiration(p, sid, d, ok)
    \/ \E p \in P, sid \in S, d \in D, k \in Keys, v \in V, ok \in F : Set(p, sid, d, k, v, ok)
    \/ \E p \in P, ok \in F : \E o \in Orders(DOMAIN store[p]) : SetPersist(p, o, ok)
    \/ \E p \in P, sid \in S, k \in Keys, ok \in F : Get(p, sid, k, ok)
    \/ \E p \in P, sid \in S, ok \in F : Visit(p, sid, ok)
    \/ \E p \in P, sid \in S, ok \in F : DatabaseLen(p, sid, ok)
    \/ \E p \in P, sid \in S, k \in Keys, ok \in F : Delete(p, sid, k, ok)
    \/ \E p \in P, ok \in F : \E o \in Orders(DOMAIN store[p]) : DeletePersist(p, o, ok)
    \/ \E p \in P, sid \in S, ok \in F : Clear(p, sid, ok)
    \/ \E p \in P, ok \in F : ClearPersist(p, ok)
    \/ \E p \in P, sid \in S, ok \in F : Release(p, sid, ok)
    \/ \E p \in P, ok \in F : ReleaseClear(p, ok)
    \/ \E p \in P, ok \in F : ReleaseDelete(p, ok)

\* One goroutine making calls one after the other on a session that holds
\* "v1" and "v2", setting "v1" or a value gob cannot encode, with every
\* failure of the store, while time passes.
Next == Step({1}, {"A"}, {"v1", Unregistered}, Durations, BOOLEAN) \/ Tick

Spec == Init /\ [][Next]_vars

\* Two goroutines whose calls on one session interleave at the round trips,
\* within one second and with the store answering every round trip.
NextConc == Step(Procs, {"A"}, {"v1", "v2"}, {4}, {TRUE})

SpecConc == Init /\ [][NextConc]_vars

\* Two sessions, each absent or holding a key, and two goroutines, one
\* calling on session A and one on session B, whose calls interleave at the
\* round trips.
InitIso ==
    /\ \E a, b \in {NoEntry, Entry(Serialize([k \in {"k1"} |-> "v1"], <<"k1">>).bytes, 2)} :
          redis = [id \in Sids |-> IF id = "A" THEN a ELSE b]
    /\ pc = [p \in Procs |-> "idle"]
    /\ call = [p \in Procs |-> NoCall]
    /\ store = [p \in Procs |-> NewStore]
    /\ hist = [p \in Procs |-> Summary(NoCall)]
    /\ chain = [p \in Procs |-> 0]
    /\ cut = [p \in Procs |-> FALSE]
    /\ ncalls = 0
    /\ lastw = 0
    /\ codec = NoCodec
    /\ shared = NoShared

NextIso == Step({1}, {"A"}, {"v1"}, {4}, {TRUE}) \/ Step({2}, {"B"}, {"v1"}, {4}, {TRUE})

SpecIso == InitIso /\ [][NextIso]_vars

\* Payloads that do not decode: the empty one Acquire writes, a stream cut
\* short, and a stream of two pairs whose second value is damaged.
CorruptPayloads ==
    { <<>>,
      <<GobHeader>>,
      <<GobHeader, "2", "k1", "v1", "k2", Junk>> }

\* A session whose entry holds such a payload, and one goroutine calling.
InitDecode ==
    /\ \E d \in CorruptPayloads, t \in {-1, 2} :
          redis = [id \in Sids |-> IF id = "A" THEN Entry(d, t) ELSE NoEntry]
    /\ pc = [p \in Procs |-> "idle"]
    /\ call = [p \in Procs |-> NoCall]
    /\ store = [p \in Procs |-> NewStore]
    /\ hist = [p \in Procs |-> Summary(NoCall)]
    /\ chain = [p \in Procs |-> 0]
    /\ cut = [p \in Procs |-> FALSE]
    /\ ncalls = 0
    /\ lastw = 0
    /\ codec = NoCodec
    /\ shared = NoShared

NextDecode == Step({1}, {"A"}, {"v1", "v2"}, {4}, {TRUE})

SpecDecode == InitDecode /\ [][NextDecode]_vars

\* ------------------------------------------------------------------ properties
\* Goroutine p is back from a call of `op`.
Done(p, op) == pc[p] = "idle" /\ call[p].op = op

\* p is back from a call that ran, and whose entry has stayed, undisturbed.
Solo(p) == pc[p] = "idle" /\ chain[p] >= 1

\* p is back from a call on the session of its previous call, an `op`, the
\* two having run back to back with nothing else touching the entry.
After(p, op) ==
    /\ pc[p] = "idle"
    /\ chain[p] >= 2
    /\ hist[p].op = op
    /\ call[p].sid = hist[p].sid

\* The mapping a fresh Store decodes from the entry of sid.
Snapshot(sid) == get(redis, sid, NewStore, TRUE).values

LastOK(c) == c.wrote # <<>> /\ c.wrote[Len(c.wrote)].ok

\* p set a key, redis accepted the write, and p then read that key at once.
C1_SetThenGet(p) ==
    /\ After(p, "Set")
    /\ hist[p].accepted
    /\ call[p].op = "Get"
    /\ call[p].key = hist[p].key
    /\ ~call[p].fault

\* C1: a Set whose write redis accepted, followed at once by a Get of the
\* same key of the same session (its fetch answered), makes the Get return the
\* value set, whatever the session held before.
C1_WriteThenRead ==
    \A p \in Procs : C1_SetThenGet(p) => call[p].ret.value = hist[p].value

\* The Set replaced an older value of the key in a stored snapshot.
C1_Witness ==
    \E p \in Procs :
        /\ C1_SetThenGet(p)
        /\ hist[p].key \in DOMAIN hist[p].loaded
        /\ hist[p].loaded[hist[p].key] # hist[p].value
        /\ call[p].ret.value = hist[p].value

\* p's Delete (written back if it deleted) was followed at once by a Get.
C2_GetAfterDelete(p) ==
    /\ After(p, "Delete")
    /\ ~hist[p].fault
    /\ hist[p].deleted => hist[p].accepted
    /\ call[p].op = "Get"
    /\ ~call[p].fault

\* C2: Delete returns true exactly for a key of the loaded snapshot; after a
\* Delete that returned true and was written back, Get returns nil for the key
\* and the old value for every other key; a Delete of a key the snapshot does
\* not hold (or of an absent session) returns false, issues no write and
\* leaves the entry as it was.
C2_DeleteSemantics ==
    \A p \in Procs :
        /\ Done(p, "Delete") =>
              /\ call[p].ret.deleted = (call[p].key \in DOMAIN call[p].loaded)
              /\ ~call[p].ret.deleted =>
                    /\ call[p].wrote = <<>>
                    /\ Solo(p) => redis[call[p].sid] = call[p].pre
        /\ C2_GetAfterDelete(p) =>
              call[p].ret.value =
                  IF hist[p].deleted /\ call[p].key = hist[p].key THEN Nil
                  ELSE ValueAt(hist[p].loaded, call[p].key)

\* A key was deleted and a Get of another key still finds its value.
C2_Witness ==
    \E p \in Procs :
        /\ C2_GetAfterDelete(p)
        /\ hist[p].deleted
        /\ call[p].key # hist[p].key
        /\ call[p].ret.value # Nil

\* p's Release, every write of it answered, was followed at once by a Len.
C3_LenAfterRelease(p) ==
    /\ After(p, "Release")
    /\ hist[p].accepted
    /\ call[p].op = "Len"

\* C3: once Release is back with its redis Delete answered, redis reports no
\* entry for the session and a Len that follows returns 0, whether the session
\* was absent, empty or non-empty (its Clear then rewrote the entry first).
C3_ReleaseSemantics ==
    \A p \in Procs :
        /\ (Done(p, "Release") /\ Solo(p) /\ LastOK(call[p])) => ~redisExist(redis, call[p].sid)
        /\ C3_LenAfterRelease(p) => (call[p].ret.n = 0 /\ ~redisExist(redis, call[p].sid))

\* Release found a non-empty snapshot, cleared it, deleted the entry; Len follows.
C3_Witness ==
    \E p \in Procs :
        /\ C3_LenAfterRelease(p)
        /\ hist[p].loaded # NewStore
        /\ call[p].ret.n = 0

\* p acquired a session redis had no entry for, and its write was accepted.
C4_NewSession(p) ==
    /\ Done(p, "Acquire")
    /\ Solo(p)
    /\ ~call[p].pre.exists
    /\ ~call[p].fault

\* C4: Acquire on a session redis has no entry for writes the empty payload
\* with an expiration of expires in whole seconds, which redis accepting it
\* creates the entry with (no expiration for less than a second), and returns
\* the empty LifeTime.
C4_AcquireCreates ==
    \A p \in Procs :
        C4_NewSession(p) =>
            LET secs == Seconds(call[p].dur) IN
            /\ call[p].wrote = <<Cmd("Set", call[p].sid, <<>>, secs, TRUE)>>
            /\ redis[call[p].sid] = Entry(<<>>, IF secs > 0 THEN secs ELSE -1)
            /\ call[p].ret.lifetime = ZeroLifeTime

\* A new session acquired for two seconds has an entry with a TTL of 2.
C4_Witness ==
    \E p \in Procs :
        /\ C4_NewSession(p)
        /\ call[p].dur = 4
        /\ redis[call[p].sid].ttl = 2
        /\ redis[call[p].sid].payload = <<>>

\* C5: Acquire returns a concrete expiration, now plus the seconds redis
\* reported, exactly when redis found the entry with an expiration; otherwise
\* the empty LifeTime; and for a found entry it writes nothing.
C5_AcquireLifetime ==
    \A p \in Procs :
        Done(p, "Acquire") =>
            /\ ~call[p].ret.lifetime.zero <=> (call[p].pre.exists /\ call[p].pre.ttl > -1)
            /\ ~call[p].ret.lifetime.zero => call[p].ret.lifetime.after = call[p].pre.ttl
            /\ call[p].pre.exists =>
                  /\ call[p].wrote = <<>>
                  /\ Solo(p) => redis[call[p].sid] = call[p].pre

\* An entry with two seconds to live is acquired: the LifeTime is now + 2s.
C5_Witness ==
    \E p \in Procs :
        /\ Done(p, "Acquire")
        /\ call[p].pre.exists
        /\ call[p].pre.ttl = 2
        /\ call[p].ret.lifetime = [zero |-> FALSE, after |-> 2]

\* p read a session that has no entry, or whose fetch failed.
C6_Miss(p) ==
    /\ pc[p] = "idle"
    /\ call[p].op \in {"Get", "Len", "Visit"}
    /\ ~call[p].pre.exists \/ call[p].fault

\* C6: for a session redis has no entry for, or whose fetch fails, Get returns
\* nil, Len 0 and Visit calls cb for nothing; no error is returned or logged.
C6_LoadMiss ==
    \A p \in Procs :
        C6_Miss(p) =>
            /\ call[p].ret = NoRet
            /\ call[p].logged = <<>>
            /\ call[p].wrote = <<>>

\* The fetch of an existing, non-empty session failed and Len returned 0.
C6_Witness ==
    \E p \in Procs :
        /\ C6_Miss(p)
        /\ call[p].op = "Len"
        /\ call[p].fault
        /\ Snapshot(call[p].sid) # NewStore
        /\ call[p].ret.n = 0

Has(seq, x) == \E i \in 1..Len(seq) : seq[i] = x

Count(seq, x) == Cardinality({i \in 1..Len(seq) : seq[i] = x})

\* Both goroutines are back from a Set of the same session, of distinct keys.
C7_BothSet ==
    /\ \A p \in Procs : Done(p, "Set")
    /\ call[1].sid = call[2].sid
    /\ call[1].key # call[2].key
    /\ lastw \in Procs

\* C7: when two Sets of distinct keys of one session are both back, the
\* stored payload is the very bytes the one that persisted last wrote: the
\* snapshot it had loaded, with its own key set.
C7_LastWriteWins ==
    C7_BothSet =>
        LET c == call[lastw] IN
        /\ redis[c.sid].exists
        /\ redis[c.sid].payload = c.wrote[1].payload
        /\ Snapshot(c.sid) = [k \in (DOMAIN c.loaded) \cup {c.key} |->
                                 IF k = c.key THEN c.value ELSE c.loaded[k]]

\* Both Sets were written, and the key of the one that persisted first is gone.
C7_Witness ==
    /\ C7_BothSet
    /\ \E o \in Procs \ {lastw} :
          /\ call[o].wrote # <<>>
          /\ call[o].key \notin DOMAIN Snapshot(call[o].sid)
    /\ call[lastw].key \in DOMAIN Snapshot(call[lastw].sid)

\* A new Store has deserialized the bytes.
C8_Decoded == codec.phase = "decoded" /\ codec.dst0 = NewStore

\* C8: a new Store that deserializes the bytes a Store holding M serialized
\* without error holds exactly M.
C8_RoundTrip == C8_Decoded => (~codec.decErr /\ codec.dst = codec.src)

\* A mapping of two keys went through.
C8_Witness == C8_Decoded /\ DOMAIN codec.src = Keys /\ codec.dst = codec.src

\* p is back from a write operation whose persist step failed to encode.
C9_EncodeFailed(p) ==
    /\ pc[p] = "idle"
    /\ call[p].op \in {"Set", "Delete", "Clear"}
    /\ Has(call[p].logged, "encode")

\* C9 as claimed: a write operation whose snapshot fails to encode returns
\* the failure to its caller as an error value.
C9_EncodeErrorReturned ==
    \A p \in Procs : C9_EncodeFailed(p) => call[p].ret.err

\* C9 as amended: a Set of a value gob cannot encode fails in its persist
\* step; the failure of a write operation to encode is logged once and never
\* returned, no write is sent to redis and the entry stays as it was.
C9_EncodeErrorLogged ==
    \A p \in Procs :
        /\ (Done(p, "Set") /\ call[p].value = Unregistered) => C9_EncodeFailed(p)
        /\ C9_EncodeFailed(p) =>
              /\ ~call[p].ret.err
              /\ call[p].ret = NoRet
              /\ Count(call[p].logged, "encode") = 1
              /\ call[p].wrote = <<>>
              /\ Solo(p) => redis[call[p].sid] = call[p].pre

\* A Set of an unencodable value on a stored snapshot came back, nothing written.
C9_Witness ==
    \E p \in Procs :
        /\ C9_EncodeFailed(p)
        /\ Solo(p)
        /\ call[p].op = "Set"
        /\ call[p].loaded # NewStore
        /\ redis[call[p].sid] = call[p].pre

\* C10: OnUpdateExpiration sends one UpdateTTL with newExpires in whole
\* seconds and returns its error; the payload and the existence of the entry
\* stay as they were, an entry that exists gets that TTL (a positive one), and
\* when UpdateTTL fails the entry is unchanged.
C10_UpdateExpiration ==
    \A p \in Procs :
        Done(p, "OnUpdateExpiration") =>
            LET c == call[p]
                secs == Seconds(c.dur)
            IN /\ c.ret.err = c.fault
               /\ c.wrote = <<Cmd("UpdateTTL", c.sid, <<>>, secs, ~c.fault)>>
               /\ c.logged = <<>>
               /\ Solo(p) =>
                     /\ redis[c.sid].payload = c.pre.payload
                     /\ redis[c.sid].exists = c.pre.exists
                     /\ c.fault => redis[c.sid] = c.pre
                     /\ (~c.fault /\ c.pre.exists /\ secs > 0) => redis[c.sid].ttl = secs
                     /\ \A id \in Sids \ {c.sid} : redis[id] = NoEntry

\* A stored snapshot without expiration got a TTL of 2, its payload untouched.
C10_Witness ==
    \E p \in Procs :
        /\ Done(p, "OnUpdateExpiration")
        /\ Solo(p)
        /\ ~call[p].fault
        /\ call[p].pre.exists
        /\ call[p].pre.ttl = -1
        /\ call[p].pre.payload # <<>>
        /\ redis[call[p].sid] = Entry(call[p].pre.payload, 2)

\* Goroutines p and q are inside methods of the shared Store at once.
Overlap(p, q) == p # q /\ Conflicts(shared.op[p].name, shared.op[q].name)

\* C11: a goroutine inside Set, Delete, Flush or Deserialize holds the
\* Store's lock exclusively, one inside Get or Serialize holds it shared, and
\* no read is in progress together with a write, nor two writes together.
C11_LockDiscipline ==
    /\ \A p \in Procs :
          /\ shared.op[p].name \in Writes => shared.writer = p
          /\ shared.op[p].name \in Reads => p \in shared.readers
    /\ \A p, q \in Procs : ~Overlap(p, q)

\* C13: after a successful Deserialize the Store's mapping is exactly the
\* encoded one, whatever the Store held before.
C13_DeserializeReplaces ==
    (codec.phase = "decoded" /\ ~codec.decErr) => codec.dst = codec.src

\* The mapping a fresh Store decodes from the entry e.
SnapshotOf(e) == IF e.exists THEN Deserialize(NewStore, e.payload).values ELSE NewStore

\* The call c sent its snapshot to redis and the round trip failed.
PersistFailed(c) == c.wrote # <<>> /\ ~LastOK(c)

\* p is back from a Set, Delete or Clear whose persist failed, nothing else
\* having touched the entry meanwhile.
C15_Lost(p) ==
    /\ Solo(p)
    /\ call[p].op \in {"Set", "Delete", "Clear"}
    /\ PersistFailed(call[p])

\* After such a call the entry is as it was before the call, one write was
\* attempted and one error logged.
C15_Kept ==
    \A p \in Procs :
        C15_Lost(p) =>
            /\ redis[call[p].sid] = call[p].pre
            /\ Len(call[p].wrote) = 1
            /\ Count(call[p].logged, "store") = 1

\* A Get of the session that p makes next (its fetch answered) returns what
\* the entry held before the failed call.
C15_NextGet ==
    \A p \in Procs :
        ( /\ C15_Lost(p)
          /\ ncalls' = ncalls + 1
          /\ pc'[p] = "idle"
          /\ call'[p].op = "Get"
          /\ call'[p].sid = call[p].sid
          /\ ~call'[p].fault )
        => call'[p].ret.value = ValueAt(SnapshotOf(call[p].pre), call'[p].key)

\* C15: when redis fails the write of the persist step of Set, Delete or
\* Clear (the call otherwise undisturbed), the entry, payload and TTL, is left
\* as it was before the call, the write is attempted once, and a Get that
\* follows returns the value from before the call.
C15_PersistFailure == [][C15_Kept' /\ C15_NextGet]_vars

\* A Set of a new key whose persist failed, then a Get of that key finding
\* nothing, the session still holding what it held.
C15_Witness ==
    \E p \in Procs :
        /\ After(p, "Set")
        /\ hist[p].fault
        /\ hist[p].loaded # NewStore
        /\ hist[p].key \notin DOMAIN hist[p].loaded
        /\ call[p].op = "Get"
        /\ ~call[p].fault
        /\ call[p].key = hist[p].key
        /\ call[p].ret.value = Nil
        /\ Snapshot(call[p].sid) = hist[p].loaded

\* The step is a whole Get, Visit or Len of goroutine p.
C16_Reads(p) ==
    /\ pc[p] = "idle"
    /\ pc'[p] = "idle"
    /\ ncalls' = ncalls + 1
    /\ call'[p].op \in {"Get", "Visit", "Len"}

\* C16: a Get, Visit or Len sends redis no command that writes, deletes or
\* sets a TTL, and leaves every entry of the store, existence, payload and
\* TTL, as it was, whether its fetch succeeds or fails.
C16_ReadsDoNotWrite ==
    [][\A p \in Procs : C16_Reads(p) => (redis' = redis /\ call'[p].wrote = <<>>)]_vars

\* A Visit that found pairs in a session a Set had just written, the entry
\* carrying an expiration.
C16_Witness ==
    \E p \in Procs :
        /\ After(p, "Set")
        /\ hist[p].accepted
        /\ call[p].op = "Visit"
        /\ call[p].ret.visited # {}
        /\ call[p].wrote = <<>>
        /\ redis[call[p].sid] = call[p].pre
        /\ redis[call[p].sid].ttl > 0

\* The bytes of an empty snapshot.
EmptySnapshot == Serialize(NewStore, <<>>).bytes

\* C17: a Clear that loaded a non-empty snapshot sends one write, of the
\* empty snapshot; once redis has accepted it the entry exists and decodes to
\* no key, and a Len that follows returns 0.  A Clear that loaded nothing (the
\* entry absent, empty, or not fetched) sends no write.
C17_ClearKeepsEntry ==
    \A p \in Procs :
        /\ (Done(p, "Clear") /\ call[p].loaded # NewStore) =>
              /\ Len(call[p].wrote) = 1
              /\ call[p].wrote[1].cmd = "Set"
              /\ call[p].wrote[1].id = call[p].sid
              /\ call[p].wrote[1].payload = EmptySnapshot
              /\ (Solo(p) /\ LastOK(call[p])) =>
                    /\ redis[call[p].sid].exists
                    /\ redis[call[p].sid].payload = EmptySnapshot
                    /\ Snapshot(call[p].sid) = NewStore
        /\ (Done(p, "Clear") /\ call[p].loaded = NewStore) =>
              /\ call[p].wrote = <<>>
              /\ Solo(p) => redis[call[p].sid] = call[p].pre
        /\ (After(p, "Clear") /\ hist[p].accepted /\ call[p].op = "Len" /\ ~call[p].fault) =>
              call[p].ret.n = 0

\* A Clear of a session that held keys, then a Len returning 0 with the
\* entry still there.
C17_Witness ==
    \E p \in Procs :
        /\ After(p, "Clear")
        /\ hist[p].accepted
        /\ hist[p].loaded # NewStore
        /\ call[p].op = "Len"
        /\ ~call[p].fault
        /\ call[p].ret.n = 0
        /\ redis[call[p].sid].exists

\* C18: every snapshot write of a Delete or of a Clear carries the expiration
\* argument 0, whatever TTL the entry has and whatever lifetime an earlier Set
\* gave; a Delete of a key the session held and a Clear of a non-empty session
\* do send that write; the write of a Set carries the whole seconds left of
\* its lifetime argument.
C18_PersistExpiration ==
    \A p \in Procs :
        /\ \A i \in 1..Len(call[p].wrote) :
              call[p].wrote[i].cmd = "Set" =>
                 /\ call[p].op \in {"Delete", "Clear"} => call[p].wrote[i].ttl = 0
                 /\ call[p].op = "Set" => call[p].wrote[i].ttl = Seconds(call[p].dur)
        /\ (Done(p, "Delete") /\ call[p].key \in DOMAIN call[p].loaded) => Len(call[p].wrote) = 1
        /\ (Done(p, "Clear") /\ call[p].loaded # NewStore) => Len(call[p].wrote) = 1

\* A Set with a lifetime of two seconds, then a Delete of a key of the
\* session, whose entry has a TTL running, persisted with expiration 0.
C18_Witness ==
    \E p \in Procs :
        /\ After(p, "Set")
        /\ hist[p].accepted
        /\ Done(p, "Delete")
        /\ call[p].ret.deleted
        /\ call[p].pre.ttl > 0
        /\ Len(call[p].wrote) = 1
        /\ call[p].wrote[1].ttl = 0

\* C12: the write that ends an Acquire never replaces the payload of an entry
\* that exists when the write is made, whatever other calls on the session
\* did since the Acquire read the TTL.
C12_AcquireOnlyIfAbsent ==
    [][\A p \in Procs :
          (pc[p] = "AcquireSet" /\ pc'[p] = "idle" /\ redis[call[p].sid].exists)
              => redis'[call[p].sid].payload = redis[call[p].sid].payload]_vars

\* p is back from a Release whose Delete redis executed, and the entry of
\* its session is absent.
Released(p) ==
    /\ Done(p, "Release")
    /\ LastOK(call[p])
    /\ ~redis[call[p].sid].exists

\* q is about to persist a Set, Delete or Clear on the session of p, having
\* loaded before something else changed the entry.
InFlight(q, p) ==
    /\ q # p
    /\ pc[q] \in {"SetPersist", "DeletePersist", "ClearPersist"}
    /\ call[q].sid = call[p].sid
    /\ cut[q]

\* C20: once a Release has returned and the entry is gone, the persist of a
\* Set, Delete or Clear that loaded before the Release removed the entry does
\* not create the entry again.
C20_ReleaseIsFinal ==
    [][\A p, q \in Procs :
          (Released(p) /\ InFlight(q, p) /\ pc'[q] = "idle")
              => ~redis'[call[p].sid].exists]_vars

\* Goroutine p takes the step.
Steps(p) == pc'[p] # pc[p] \/ call'[p] # call[p]

\* C19: an entry of the store changes (existence, payload or TTL) only in a
\* step of a call made with its session id, and what a call that loads
\* (all but Acquire and OnUpdateExpiration) gets is the snapshot of the entry
\* of its own session id.
C19_SessionIsolation ==
    [][/\ \A id \in Sids :
             redis'[id] # redis[id] => \E p \in Procs : Steps(p) /\ call'[p].sid = id
       /\ \A p \in Procs :
             ( /\ pc[p] = "idle"
               /\ ncalls' = ncalls + 1
               /\ call'[p] # call[p]
               /\ call'[p].op \in {"Set", "Get", "Visit", "Len", "Delete", "Clear", "Release"} )
                 => call'[p].loaded = SnapshotOf(redis[call'[p].sid])]_vars

\* A Release of session A has removed its entry while the other goroutine
\* has set a key in session B, whose entry holds it.
C19_Witness ==
    \E p, q \in Procs :
        /\ Done(p, "Release")
        /\ call[p].sid = "A"
        /\ call[p].pre.exists
        /\ ~redis["A"].exists
        /\ Done(q, "Set")
        /\ call[q].sid = "B"
        /\ call[q].pre.exists
        /\ DOMAIN Snapshot("B") = (DOMAIN call[q].loaded) \cup {call[q].key}

\* C14: a call whose load logged a decode failure goes on with an empty
\* Store: Get returns nil, Visit visits nothing, Len returns 0, Delete returns
\* false and writes nothing, Clear writes nothing, and the snapshot a Set
\* writes holds the key it set and no other.
C14_LenientDecode ==
    \A p \in Procs :
        (pc[p] = "idle" /\ Has(call[p].logged, "decode")) =>
            /\ call[p].loaded = NewStore
            /\ call[p].op = "Get" => call[p].ret.value = Nil
            /\ call[p].op = "Visit" => call[p].ret.visited = {}
            /\ call[p].op = "Len" => call[p].ret.n = 0
            /\ call[p].op = "Delete" => (~call[p].ret.deleted /\ call[p].wrote = <<>>)
            /\ call[p].op = "Clear" => call[p].wrote = <<>>
            /\ call[p].op = "Set" =>
                  /\ Len(call[p].wrote) = 1
                  /\ Deserialize(NewStore, call[p].wrote[1].payload).values
                        = [k \in {call[p].key} |-> call[p].value]

====
